---- MODULE Spec2Model ----
(***************************************************************************)
(* A model of the Bato chapter downloader (src/bato_web_streamlit.py):     *)
(* the chapter resolver with mirror failover, the image-reference          *)
(* extractor, the concurrent fetch phase, the PDF assembly (skip and       *)
(* stitch mode) and the bulk orchestration.                                *)
(*                                                                         *)
(* Python strings are TLA+ strings, used as sequences of characters        *)
(* (Len, SubSeq, \o).  Each component has its own variables, its own       *)
(* initial condition and its own specification; the variables of the       *)
(* other components stay at their idle values.                             *)
(***************************************************************************)
EXTENDS Integers, Sequences, FiniteSets, TLC

VARIABLES
    \* ---- get_chapter_info
    chapter_url,   \* the argument
    cand,          \* position of the for-loop in the candidate list
    rstate,        \* "IDLE" | "TRYING" | "SUCCEEDED" | "EXHAUSTED"
    fetched,       \* the requests made, in order: test_domain and current_url of each
    failed,        \* the candidate positions whose iteration ended in continue
    resp,          \* the response of the last iteration
    chapter_info,  \* the returned value: a dict or NoneValue; PendingValue before
    \* ---- extract_images_multi_strategy
    page,          \* the argument: the script tags of the page
    extracted,     \* the returned list ([urls |-> ...]), PendingValue before the call
    \* ---- images_to_pdf_lossless
    a_listing,       \* os.listdir(image_folder) with each file's content
    a_chunk_height,  \* the argument chunk_height
    a_pc,            \* "idle" | "list" | "skip" | "load" | "chunk" | "stitch" | "save" | "done"
    a_image_files,   \* image_files
    a_batch_start,   \* batch_start of skip mode
    a_images,        \* all_pdf_images (skip mode), images (stitch mode)
    a_min_width,     \* min_width, 0 for None
    a_chunks,        \* chunks
    a_pages,         \* the pages handed to save
    a_pdf,           \* the pages of the file at output_pdf_path
    a_result,        \* the returned value: "True", "False", or "Pending"
    \* ---- process_single_download
    s_chapter_url,   \* the argument chapter_url
    s_chunk_height,  \* the argument chunk_height
    s_pc,            \* "idle" | "start" | "submit" | "collect" | "check" | "done"
    s_chapter_info,  \* chapter_info
    s_futures,       \* futures: the units given to the pool, in order
    s_collected,     \* how many futures the collect loop has passed
    s_downloaded,    \* downloaded
    s_temp_folder,   \* the files in temp_folder: [name, data]
    s_overtaken,     \* history: some unit returned before an earlier one
    s_listing,       \* os.listdir(temp_folder) as images_to_pdf_lossless saw it
    s_calls,         \* the calls of images_to_pdf_lossless
    s_pdf_data,      \* pdf_data offered for download, NoneValue without
    s_status,        \* "running", or how the call ended
    \* ---- main (bulk mode), process_bulk_download
    b_text,          \* urls_text of main: its lines
    b_urls,          \* parse_urls(urls_text), the argument urls
    b_chunk_height,  \* the argument chunk_height
    b_pc,            \* "idle" | "main" | "loop" | "resolve" | "fetch" | "check" | "done"
    b_idx,           \* idx of the chapter loop, 0 before the first iteration
    b_log,           \* history: the chapters in the order their iteration started
    b_chapter_info,  \* chapter_info of the chapter at hand
    b_temp_folder,   \* the files in temp_folder of the chapter at hand
    b_downloaded,    \* downloaded of the chapter at hand
    b_outcome,       \* history: how each finished chapter ended
    b_disk,          \* the documents in temp_dir: [path, chapter, pages]
    b_pdf_files,     \* pdf_files
    b_zip            \* the entries of the archive offered for download

resolverVars == <<chapter_url, cand, rstate, fetched, failed, resp, chapter_info>>
extractorVars == <<page, extracted>>
assemblyVars == <<a_listing, a_chunk_height, a_pc, a_image_files, a_batch_start,
                  a_images, a_min_width, a_chunks, a_pages, a_pdf, a_result>>
singleVars == <<s_chapter_url, s_chunk_height, s_pc, s_chapter_info, s_futures,
                s_collected, s_downloaded, s_temp_folder, s_overtaken, s_listing,
                s_calls, s_pdf_data, s_status>>
bulkVars == <<b_text, b_urls, b_chunk_height, b_pc, b_idx, b_log, b_chapter_info, b_temp_folder,
              b_downloaded, b_outcome, b_disk, b_pdf_files, b_zip>>
vars == <<resolverVars, extractorVars, assemblyVars, singleVars, bulkVars>>

\* What an action of one component leaves alone
exceptResolver == <<extractorVars, assemblyVars, singleVars, bulkVars>>
exceptExtractor == <<resolverVars, assemblyVars, singleVars, bulkVars>>
exceptAssembly == <<resolverVars, extractorVars, singleVars, bulkVars>>
exceptSingle == <<resolverVars, extractorVars, assemblyVars, bulkVars>>
exceptBulk == <<resolverVars, extractorVars, assemblyVars, singleVars>>

\* An absent text
None == "None"

\* Python's None as a returned value, and the value of a call still running
NoneValue == [kind |-> "None"]
PendingValue == [kind |-> "Pending"]

\* ------------------------------------------------------------------------
\* Python's str operations

\* The elements of a sequence
Range(s) == {s[i] : i \in 1..Len(s)}

\* s[i:] of Python, with i counted from 1
Suffix(s, i) == SubSeq(s, i, Len(s))

\* sub in s
Contains(s, sub) ==
    \E i \in 1..(Len(s) - Len(sub) + 1) : SubSeq(s, i, i + Len(sub) - 1) = sub

\* s.startswith(p)
StartsWith(s, p) == Len(s) >= Len(p) /\ SubSeq(s, 1, Len(p)) = p

\* s.replace(old, new): every non-overlapping occurrence, left to right
RECURSIVE Replace(_, _, _)
Replace(s, old, new) ==
    IF Len(s) < Len(old) THEN s
    ELSE IF StartsWith(s, old)
         THEN new \o Replace(Suffix(s, Len(old) + 1), old, new)
         ELSE SubSeq(s, 1, 1) \o Replace(Suffix(s, 2), old, new)

\* s.replace(old, new, 1): the first occurrence only
RECURSIVE ReplaceFirst(_, _, _)
ReplaceFirst(s, old, new) ==
    IF Len(s) < Len(old) THEN s
    ELSE IF StartsWith(s, old)
         THEN new \o Suffix(s, Len(old) + 1)
         ELSE SubSeq(s, 1, 1) \o ReplaceFirst(Suffix(s, 2), old, new)

\* ------------------------------------------------------------------------
\* Configuration

BATO_DOMAINS ==
    << "bato.si", "bato.ing", "ato.to", "dto.to", "fto.to", "hto.to",
       "jto.to", "lto.to", "mto.to", "nto.to", "vto.to", "wto.to",
       "bato.ac", "bato.bz", "bato.to", "comiko.net", "mangatoto.com" >>

\* max_workers of both ThreadPoolExecutors
max_workers == 6

\* batch_size of skip mode
batch_size == 50

\* ------------------------------------------------------------------------
\* URL normaliser

\* str.lower() on the upper-case letters
Lower ==
    [A |-> "a", B |-> "b", C |-> "c", D |-> "d", E |-> "e", F |-> "f", G |-> "g",
     H |-> "h", I |-> "i", J |-> "j", K |-> "k", L |-> "l", M |-> "m", N |-> "n",
     O |-> "o", P |-> "p", Q |-> "q", R |-> "r", S |-> "s", T |-> "t", U |-> "u",
     V |-> "v", W |-> "w", X |-> "x", Y |-> "y", Z |-> "z"]

\* str.lower() on one character
LowerChar(c) == IF c \in DOMAIN Lower THEN Lower[c] ELSE c

RECURSIVE ToLower(_)
ToLower(s) == IF s = "" THEN "" ELSE LowerChar(SubSeq(s, 1, 1)) \o ToLower(Suffix(s, 2))

\* re.match(r'^(https://k).*\.(png|jpg|jpeg|webp)(\?.*)?$', url, re.I)
MatchesCdnImage(url) ==
    LET l == ToLower(url) IN
    /\ StartsWith(l, "https://k")
    /\ \E e \in {".png", ".jpg", ".jpeg", ".webp"} :
         \E i \in 10..(Len(l) - Len(e) + 1) :
            /\ SubSeq(l, i, i + Len(e) - 1) = e
            /\ \/ i + Len(e) - 1 = Len(l)
               \/ SubSeq(l, i + Len(e), i + Len(e)) = "?"

rewrite_image_url(url) ==
    IF url = "" THEN url
    ELSE IF MatchesCdnImage(url) THEN ReplaceFirst(url, "https://k", "https://n")
    ELSE url

\* The inner loop of get_chapter_info: the first domain of BATO_DOMAINS, in list
\* order, that is a substring of the URL is replaced by test_domain with
\* str.replace; the URL is unchanged when no domain is a substring.
RECURSIVE RewriteFrom(_, _, _)
RewriteFrom(url, test_domain, k) ==
    IF k > Len(BATO_DOMAINS) THEN url
    ELSE IF Contains(url, BATO_DOMAINS[k])
         THEN Replace(url, BATO_DOMAINS[k], test_domain)
         ELSE RewriteFrom(url, test_domain, k + 1)

RewriteChapterUrl(url, test_domain) == RewriteFrom(url, test_domain, 1)

\* (a test that takes every https URL)
is_https_url(url) == StartsWith(url, "https://")

\* any(domain in url for domain in BATO_DOMAINS)
is_bato_url(url) == \E k \in 1..Len(BATO_DOMAINS) : Contains(url, BATO_DOMAINS[k])

\* ------------------------------------------------------------------------
\* Image-reference extractor
\*
\* A script tag is the record of what the extractor's tests and regular
\* expressions find in it:
\*   string    script.string is not empty
\*   imgHttps  "absent": 'imgHttps' is not in the text; "nomatch": it is, and the
\*             assignment pattern does not match; "badjson": json.loads raises;
\*             "ok": json.loads returns arr
\*   marker    'imgHttpLis' or 'batoPass' is in the text
\*   quoted    what re.findall gives for the quoted-URL pattern (line 88)
\*   bare      what re.findall gives for the bare-URL pattern (line 94)

Script(string, imgHttps, arr, marker, quoted, bare) ==
    [string |-> string, imgHttps |-> imgHttps, arr |-> arr, marker |-> marker,
     quoted |-> quoted, bare |-> bare]

\* list(dict.fromkeys(urls)): duplicates removed, first-seen order kept
RECURSIVE Dedup(_)
Dedup(urls) ==
    IF urls = <<>> THEN <<>>
    ELSE LET front == Dedup(SubSeq(urls, 1, Len(urls) - 1))
             last == urls[Len(urls)]
         IN IF last \in Range(front) THEN front ELSE Append(front, last)

\* One iteration of the first loop: the list it returns, or None to go on
Nothing == <<None>>

FirstLoopBody(s) ==
    IF ~s.string THEN Nothing
    ELSE IF s.imgHttps = "ok" /\ s.arr # <<>> THEN s.arr
    ELSE IF s.marker /\ s.quoted # <<>> THEN s.quoted
    ELSE Nothing

\* (a second loop that is content with two distinct URLs)
SecondLoopBodyTwo(s) ==
    IF s.string /\ s.bare # <<>> /\ Len(Dedup(s.bare)) >= 2 THEN Dedup(s.bare)
    ELSE Nothing

\* One iteration of the second loop
SecondLoopBody(s) ==
    IF s.string /\ s.bare # <<>> /\ Len(Dedup(s.bare)) >= 3 THEN Dedup(s.bare)
    ELSE Nothing

RECURSIVE SecondLoop(_, _)
SecondLoop(scripts, i) ==
    IF i > Len(scripts) THEN <<>>
    ELSE IF SecondLoopBody(scripts[i]) # Nothing THEN SecondLoopBody(scripts[i])
    ELSE SecondLoop(scripts, i + 1)

RECURSIVE FirstLoop(_, _)
FirstLoop(scripts, i) ==
    IF i > Len(scripts) THEN SecondLoop(scripts, 1)
    ELSE IF FirstLoopBody(scripts[i]) # Nothing THEN FirstLoopBody(scripts[i])
    ELSE FirstLoop(scripts, i + 1)

extract_images_multi_strategy(scripts) == FirstLoop(scripts, 1)

\* ------------------------------------------------------------------------
\* Inputs of the extractor and of the resolver

\* The longest page, in script tags
MaxScripts == 3

U1 == "https://k1.io/1.jpg"
U2 == "https://n2.io/2.png"
U3 == "https://k3.io/3.webp?a=1"
U4 == "https://k4.io/4.gif"
U5 == "https://K5.io/5.JPEG"
U6 == "https://x6.io/6.jpg"

ScriptKinds ==
    { Script(FALSE, "absent", <<>>, FALSE, <<>>, <<>>),
      Script(TRUE, "absent", <<>>, FALSE, <<>>, <<>>),
      \* imgHttps = ["U1", "U2"]
      Script(TRUE, "ok", <<U1, U2>>, FALSE, <<U1, U2>>, <<U1, U2>>),
      \* imgHttps = []
      Script(TRUE, "ok", <<>>, FALSE, <<>>, <<>>),
      \* imgHttps = ['U1', 'U2']: not JSON
      Script(TRUE, "badjson", <<>>, FALSE, <<>>, <<U1, U2>>),
      \* imgHttps: ["U1"]: no assignment
      Script(TRUE, "nomatch", <<>>, FALSE, <<U1>>, <<U1>>),
      \* batoPass with three quoted URLs, one of them twice
      Script(TRUE, "absent", <<>>, TRUE, <<U3, U4, U3, U5>>, <<U3, U4, U3, U5>>),
      \* imgHttpLis and no URL
      Script(TRUE, "absent", <<>>, TRUE, <<>>, <<>>),
      \* imgHttps = ["U1", "U2"] and batoPass in one script
      Script(TRUE, "ok", <<U1, U2>>, TRUE, <<U1, U2, U6>>, <<U1, U2, U6>>),
      \* no marker: two distinct URLs, one of them twice
      Script(TRUE, "absent", <<>>, FALSE, <<>>, <<U5, U6, U5>>),
      \* no marker: three distinct URLs
      Script(TRUE, "absent", <<>>, FALSE, <<>>, <<U4, U6, U4, U2>>) }

RECURSIVE SeqsUpTo(_, _)
SeqsUpTo(S, n) ==
    IF n = 0 THEN {<<>>}
    ELSE LET shorter == SeqsUpTo(S, n - 1)
         IN shorter \cup {Append(q, x) : q \in {r \in shorter : Len(r) = n - 1}, x \in S}

Pages == SeqsUpTo(ScriptKinds, MaxScripts)

\* ------------------------------------------------------------------------
\* extract_images_multi_strategy as a program

InitExtractor ==
    /\ page \in Pages
    /\ extracted = PendingValue

IdleExtractor ==
    /\ page = <<>>
    /\ extracted = NoneValue

Extract ==
    /\ extracted = PendingValue
    /\ extracted' = [kind |-> "list", urls |-> extract_images_multi_strategy(page)]
    /\ UNCHANGED page
    /\ UNCHANGED exceptExtractor

\* ------------------------------------------------------------------------
\* get_chapter_info

\* (a candidate list without the two leading probe domains)
CandidatesMirrorsOnly == BATO_DOMAINS

\* ["bato.si", "bato.ing"] + BATO_DOMAINS
Candidates == <<"bato.si", "bato.ing">> \o BATO_DOMAINS

\* The title elements of a page: the text of each, or None when it is absent
Html(nav, h1, title, scripts) ==
    [nav |-> nav, h1 |-> h1, title |-> title, scripts |-> scripts]

\* soup.find('h3', class_='nav-title') or soup.find('h1') or soup.find('title'),
\* then its text, or "Chapter"
ChapterTitle(html) ==
    IF html.nav # None THEN html.nav
    ELSE IF html.h1 # None THEN html.h1
    ELSE IF html.title # None THEN html.title
    ELSE "Chapter"

\* The pages a mirror may answer with
MirrorPages ==
    { Html("Ch 1", "Series", "Bato", << Script(TRUE, "ok", <<U1, U2>>, FALSE, <<U1, U2>>, <<U1, U2>>) >>),
      Html(None, "Ch 2", "Bato",
           << Script(TRUE, "absent", <<>>, FALSE, <<>>, <<>>),
              Script(TRUE, "absent", <<>>, TRUE, <<U3, U4, U3, U5>>, <<U3, U4, U3, U5>>) >>),
      Html(None, None, None, << Script(TRUE, "absent", <<>>, FALSE, <<>>, <<U4, U6, U4, U2>>) >>),
      Html(None, None, "Not found", << Script(TRUE, "absent", <<>>, FALSE, <<>>, <<U5, U6, U5>>) >>),
      Html("Ch 5", None, None, <<>>) }

\* The chapter URLs of the callers: each holds a domain of BATO_DOMAINS
ChapterUrls ==
    UNION {{"https://" \o BATO_DOMAINS[k] \o "/chapter/1",
            "https://" \o BATO_DOMAINS[k] \o "/chapter/1?from=" \o BATO_DOMAINS[k]} :
           k \in 1..Len(BATO_DOMAINS)}

InitResolver ==
    /\ chapter_url \in ChapterUrls
    /\ cand = 1
    /\ rstate = "TRYING"
    /\ fetched = <<>>
    /\ failed = {}
    /\ resp = NoneValue
    /\ chapter_info = PendingValue

IdleResolver ==
    /\ chapter_url = ""
    /\ cand = 0
    /\ rstate = "IDLE"
    /\ fetched = <<>>
    /\ failed = {}
    /\ resp = NoneValue
    /\ chapter_info = NoneValue

\* (an extraction that is accepted whatever it holds)
UsableAlways(image_urls) == TRUE

\* if not image_urls: continue
Usable(image_urls) == image_urls # <<>>

InLoop == rstate = "TRYING" /\ cand <= Len(Candidates)

\* current_url of this iteration
CurrentUrl == RewriteChapterUrl(chapter_url, Candidates[cand])

\* continue
Continue(r) ==
    /\ fetched' = Append(fetched, [domain |-> Candidates[cand], url |-> CurrentUrl])
    /\ failed' = failed \cup {cand}
    /\ resp' = r
    /\ cand' = cand + 1
    /\ UNCHANGED <<chapter_url, rstate, chapter_info>>
    /\ UNCHANGED exceptResolver

\* requests.get raises (timeout, connection error): except: continue
ProbeError ==
    /\ InLoop
    /\ Continue([kind |-> "error"])

\* response.status_code != 200
ProbeNon200 ==
    /\ InLoop
    /\ \E st \in {404, 503} : Continue([kind |-> "response", status |-> st])

\* status 200, and the extractor returns an empty list
ProbeEmpty ==
    /\ InLoop
    /\ \E html \in MirrorPages :
         /\ ~Usable(extract_images_multi_strategy(html.scripts))
         /\ Continue([kind |-> "response", status |-> 200, html |-> html])

\* status 200 and a non-empty extraction: the manifest is returned
ProbeSuccess ==
    /\ InLoop
    /\ \E html \in MirrorPages :
         LET image_urls == extract_images_multi_strategy(html.scripts) IN
         /\ Usable(image_urls)
         /\ fetched' = Append(fetched, [domain |-> Candidates[cand], url |-> CurrentUrl])
         /\ resp' = [kind |-> "response", status |-> 200, html |-> html]
         /\ chapter_info' =
              [kind |-> "dict",
               title |-> ChapterTitle(html),
               images |-> [i \in 1..Len(image_urls) |-> rewrite_image_url(image_urls[i])],
               domain |-> Candidates[cand]]
         /\ rstate' = "SUCCEEDED"
         /\ UNCHANGED <<chapter_url, cand, failed>>
         /\ UNCHANGED exceptResolver

\* the for loop ends: return None
ReturnNone ==
    /\ rstate = "TRYING"
    /\ cand > Len(Candidates)
    /\ chapter_info' = NoneValue
    /\ rstate' = "EXHAUSTED"
    /\ UNCHANGED <<chapter_url, cand, fetched, failed, resp>>
    /\ UNCHANGED exceptResolver

\* ------------------------------------------------------------------------
\* File names

Digits == "0123456789"

\* int(c) of one digit
DigitValue ==
    "0" :> 0 @@ "1" :> 1 @@ "2" :> 2 @@ "3" :> 3 @@ "4" :> 4 @@
    "5" :> 5 @@ "6" :> 6 @@ "7" :> 7 @@ "8" :> 8 @@ "9" :> 9

IsDigit(c) == c \in DOMAIN DigitValue

\* str(n)
RECURSIVE DigitStr(_)
DigitStr(n) ==
    IF n < 10 THEN SubSeq(Digits, n + 1, n + 1)
    ELSE DigitStr(n \div 10) \o SubSeq(Digits, (n % 10) + 1, (n % 10) + 1)

\* f"{idx:04d}": zero-padded to at least four digits
RECURSIVE ZeroPad(_, _)
ZeroPad(s, width) == IF Len(s) >= width THEN s ELSE ZeroPad("0" \o s, width)

\* f"page_{idx:04d}.jpg"
SlotName(idx) == "page_" \o ZeroPad(DigitStr(idx), 4) \o ".jpg"

\* int(text) of a run of digits
RECURSIVE ToInt(_)
ToInt(s) ==
    IF s = "" THEN 0
    ELSE 10 * ToInt(SubSeq(s, 1, Len(s) - 1)) + DigitValue[SubSeq(s, Len(s), Len(s))]

\* The length of the longest prefix of s of digits (digit = TRUE) or of
\* non-digits (digit = FALSE)
RECURSIVE RunLen(_, _)
RunLen(s, digit) ==
    IF s = "" \/ IsDigit(SubSeq(s, 1, 1)) # digit THEN 0
    ELSE 1 + RunLen(Suffix(s, 2), digit)

\* [int(text) if text.isdigit() else text.lower()
\*  for text in re.split(r'(\d+)', filename)]:
\* texts at the odd positions, numbers at the even ones
RECURSIVE natural_sort_key(_)
natural_sort_key(filename) ==
    LET n == RunLen(filename, FALSE)
        text == ToLower(SubSeq(filename, 1, n))
        rest == Suffix(filename, n + 1)
    IN IF rest = "" THEN <<text>>
       ELSE LET d == RunLen(rest, TRUE)
            IN <<text, ToInt(SubSeq(rest, 1, d))>> \o natural_sort_key(Suffix(rest, d + 1))

\* The characters of file names in code-point order
CodePoints == ".0123456789_abcdefghijklmnopqrstuvwxyz"

CodePoint(c) == CHOOSE i \in 1..Len(CodePoints) : SubSeq(CodePoints, i, i) = c

\* a < b on str
RECURSIVE StrLess(_, _)
StrLess(a, b) ==
    IF b = "" THEN FALSE
    ELSE IF a = "" THEN TRUE
    ELSE IF SubSeq(a, 1, 1) = SubSeq(b, 1, 1) THEN StrLess(Suffix(a, 2), Suffix(b, 2))
    ELSE CodePoint(SubSeq(a, 1, 1)) < CodePoint(SubSeq(b, 1, 1))

\* a < b on the lists natural_sort_key returns, from position i on
RECURSIVE KeyLessFrom(_, _, _)
KeyLessFrom(a, b, i) ==
    IF i > Len(b) THEN FALSE
    ELSE IF i > Len(a) THEN TRUE
    ELSE IF a[i] = b[i] THEN KeyLessFrom(a, b, i + 1)
    ELSE IF i % 2 = 1 THEN StrLess(a[i], b[i]) ELSE a[i] < b[i]

KeyLess(a, b) == KeyLessFrom(a, b, 1)

\* fname.lower().endswith(('.png', '.jpg', '.jpeg', '.webp', '.gif'))
IsImageName(fname) ==
    \E e \in {".png", ".jpg", ".jpeg", ".webp", ".gif"} :
        /\ Len(fname) >= Len(e)
        /\ ToLower(Suffix(fname, Len(fname) - Len(e) + 1)) = e

\* list.sort(key=...): the items in the order of their keys; the sort is
\* stable, so items with equal keys keep their order
SortByKey(items) ==
    LET n == Len(items)
        Before(j, i) ==
            \/ KeyLess(items[j].key, items[i].key)
            \/ ~KeyLess(items[i].key, items[j].key) /\ j < i
        ranked == {<<Cardinality({j \in 1..n : Before(j, i)}) + 1, i>> : i \in 1..n}
    IN [r \in 1..n |-> items[(CHOOSE p \in ranked : p[1] = r)[2]]]

\* The entries of a directory listing with an image extension, each with its key
KeepImages(listing) ==
    LET kept == SelectSeq(listing, LAMBDA f : IsImageName(f.name))
    IN [i \in 1..Len(kept) |-> [key |-> natural_sort_key(kept[i].name), file |-> kept[i]]]

\* (the image files in directory order, without the sort)
ImageFilesUnsorted(listing) ==
    LET kept == KeepImages(listing)
    IN [i \in 1..Len(kept) |-> kept[i].file]

\* image_files of images_to_pdf_lossless: the entries of the directory listing
\* with an image extension, sorted by natural_sort_key of the name
ImageFiles(listing) ==
    LET sorted == SortByKey(KeepImages(listing))
    IN [i \in 1..Len(sorted) |-> sorted[i].file]

\* ------------------------------------------------------------------------
\* images_to_pdf_lossless
\*
\* A staged file is [name, data]; data is what Image.open finds in it:
\* [src, ok, mode, w, h], src naming the image that was downloaded, ok FALSE
\* when Image.open raises.  A page of the document is [w, h, parts], parts the
\* images on it from top to bottom.

Image(src, ok, mode, w, h) == [src |-> src, ok |-> ok, mode |-> mode, w |-> w, h |-> h]

\* The conversion to RGB of both modes (a white background for RGBA, LA and P)
ToRGB(img) == [img EXCEPT !.mode = "RGB"]

Page(w, h, parts) == [w |-> w, h |-> h, parts |-> parts]

\* The inner loop of skip mode over image_files[lo+1 .. hi]: an image that
\* cannot be opened is skipped
ConvertBatch(image_files, lo, hi) ==
    LET opened == SelectSeq(SubSeq(image_files, lo + 1, hi), LAMBDA f : f.data.ok)
    IN [i \in 1..Len(opened) |-> ToRGB(opened[i].data)]

\* (a batch that ends one image early)
BatchEndShort(image_files, batch_start) ==
    IF batch_start + batch_size < Len(image_files)
    THEN batch_start + batch_size - 1 ELSE Len(image_files)

\* batch_end = min(batch_start + batch_size, len(image_files))
BatchEnd(image_files, batch_start) ==
    IF batch_start + batch_size < Len(image_files)
    THEN batch_start + batch_size ELSE Len(image_files)

\* The batch loop of skip mode from batch_start on
RECURSIVE SkipFrom(_, _, _)
SkipFrom(image_files, batch_start, all_pdf_images) ==
    IF batch_start >= Len(image_files) THEN all_pdf_images
    ELSE SkipFrom(image_files, batch_start + batch_size,
                  all_pdf_images \o ConvertBatch(image_files, batch_start,
                                                 BatchEnd(image_files, batch_start)))

\* The pages first_image.save writes in skip mode
SkipPages(all_pdf_images) ==
    [i \in 1..Len(all_pdf_images) |->
        Page(all_pdf_images[i].w, all_pdf_images[i].h, <<all_pdf_images[i]>>)]

\* Pass 1 of stitch mode from image idx on: [images, min_width], min_width 0
\* for None.  int(img.height * (min_width / img.width)) is the integer quotient.
RECURSIVE LoadFrom(_, _, _, _)
LoadFrom(image_files, idx, images, min_width) ==
    IF idx > Len(image_files) THEN [images |-> images, min_width |-> min_width]
    ELSE LET img == image_files[idx].data
             mw == IF min_width = 0 \/ img.w < min_width THEN img.w ELSE min_width
             rgb == ToRGB(img)
             sized == IF mw # 0 /\ rgb.w # mw
                      THEN [rgb EXCEPT !.w = mw, !.h = (rgb.h * mw) \div rgb.w]
                      ELSE rgb
         IN IF ~img.ok THEN LoadFrom(image_files, idx + 1, images, min_width)
            ELSE LoadFrom(image_files, idx + 1, Append(images, sized), mw)

\* (a chunk closed as soon as the limit is reached, not only above it)
CloseChunkAtLimit(current_height, current_chunk, img, chunk_height) ==
    current_height + img.h >= chunk_height /\ current_chunk # <<>>

\* if current_height + img.height > chunk_height and current_chunk
CloseChunk(current_height, current_chunk, img, chunk_height) ==
    current_height + img.h > chunk_height /\ current_chunk # <<>>

\* Pass 2 of stitch mode: the chunk loop from image i on, then the last chunk
RECURSIVE ChunkFrom(_, _, _, _, _, _)
ChunkFrom(images, i, chunks, current_chunk, current_height, chunk_height) ==
    IF i > Len(images)
    THEN IF current_chunk # <<>> THEN Append(chunks, current_chunk) ELSE chunks
    ELSE IF CloseChunk(current_height, current_chunk, images[i], chunk_height)
         THEN ChunkFrom(images, i + 1, Append(chunks, current_chunk),
                        <<images[i]>>, images[i].h, chunk_height)
         ELSE ChunkFrom(images, i + 1, chunks,
                        Append(current_chunk, images[i]),
                        current_height + images[i].h, chunk_height)

Chunks(images, chunk_height) == ChunkFrom(images, 1, <<>>, <<>>, 0, chunk_height)

\* sum(img.height for img in chunk)
RECURSIVE SumHeights(_)
SumHeights(chunk) ==
    IF chunk = <<>> THEN 0 ELSE chunk[1].h + SumHeights(Tail(chunk))

\* stitched_images: one canvas of width min_width per chunk
StitchPages(chunks, min_width) ==
    [c \in 1..Len(chunks) |-> Page(min_width, SumHeights(chunks[c]), chunks[c])]

\* The whole call, when the save does not raise: [ok, pages]
images_to_pdf_lossless(listing, chunk_height) ==
    LET image_files == ImageFiles(listing)
        all_pdf_images == SkipFrom(image_files, 0, <<>>)
        loaded == LoadFrom(image_files, 1, <<>>, 0)
        chunks == Chunks(loaded.images, chunk_height)
    IN IF image_files = <<>> THEN [ok |-> FALSE, pages |-> <<>>]
       ELSE IF chunk_height = 0
            THEN IF all_pdf_images = <<>> THEN [ok |-> FALSE, pages |-> <<>>]
                 ELSE [ok |-> TRUE, pages |-> SkipPages(all_pdf_images)]
            ELSE IF loaded.images = <<>> THEN [ok |-> FALSE, pages |-> <<>>]
                 ELSE [ok |-> TRUE, pages |-> StitchPages(chunks, loaded.min_width)]

\* ------------------------------------------------------------------------
\* images_to_pdf_lossless as a program

\* The staging folders of skip mode hold 1..MaxSkipSmall images, or a
\* multiple of batch_size up to MaxSkipBatches batches with up to MaxSkipOver
\* images more, or one less; those of stitch mode up to MaxStitchImages images
MaxSkipSmall == 3
MaxSkipBatches == 2
MaxSkipOver == 1
MaxStitchImages == 4

SkipSizes ==
    (1..MaxSkipSmall)
    \cup {k * batch_size + d : k \in 1..MaxSkipBatches, d \in (-1)..MaxSkipOver}

\* The images of the stitch-mode inputs: two widths, three heights, four modes
StitchImages ==
    { [ok |-> TRUE, mode |-> "RGB", w |-> 800, h |-> 1000],
      [ok |-> TRUE, mode |-> "RGBA", w |-> 800, h |-> 4000],
      [ok |-> TRUE, mode |-> "RGB", w |-> 800, h |-> 6000],
      [ok |-> TRUE, mode |-> "P", w |-> 1000, h |-> 1000],
      [ok |-> TRUE, mode |-> "L", w |-> 1000, h |-> 4000],
      [ok |-> FALSE, mode |-> "RGB", w |-> 800, h |-> 1000] }

\* The chunk heights of the presets short and normal
ChunkHeights == {5000, 15000}

\* A staging folder as the fetch phase leaves it: page_<idx>.jpg for the
\* positions 1..n but those of missing, listed from the last to the first;
\* kind[idx] is what the file of position idx holds
Staged(n, missing, kind) ==
    LET kept == SelectSeq([i \in 1..n |-> n + 1 - i], LAMBDA idx : idx \notin missing)
    IN [i \in 1..Len(kept) |->
          [name |-> SlotName(kept[i]),
           data |-> Image(kept[i], kind[kept[i]].ok, kind[kept[i]].mode,
                          kind[kept[i]].w, kind[kept[i]].h)]]

\* The image of a skip-mode input: every third one has an alpha channel
SkipKind(n, corrupt) ==
    [idx \in 1..n |->
        [ok |-> idx \notin corrupt, mode |-> IF idx % 3 = 0 THEN "RGBA" ELSE "RGB",
         w |-> 800, h |-> 1000]]

AssemblyStart(listing, chunk_height) ==
    /\ a_listing = listing
    /\ a_chunk_height = chunk_height
    /\ a_pc = "list"
    /\ a_image_files = <<>>
    /\ a_batch_start = 0
    /\ a_images = <<>>
    /\ a_min_width = 0
    /\ a_chunks = <<>>
    /\ a_pages = <<>>
    /\ a_pdf = <<>>
    /\ a_result = "Pending"

InitSkip ==
    \E n \in SkipSizes :
        \E missing \in {{}, {1}, {batch_size}}, corrupt \in {{}, {batch_size + 1}} :
            /\ missing # 1..n
            /\ AssemblyStart(Staged(n, missing, SkipKind(n, corrupt)), 0)

InitStitch ==
    \E n \in 1..MaxStitchImages :
        \E kind \in [1..n -> StitchImages], chunk_height \in ChunkHeights :
            AssemblyStart(Staged(n, {}, kind), chunk_height)

IdleAssembly ==
    /\ a_listing = <<>>
    /\ a_chunk_height = 0
    /\ a_pc = "idle"
    /\ a_image_files = <<>>
    /\ a_batch_start = 0
    /\ a_images = <<>>
    /\ a_min_width = 0
    /\ a_chunks = <<>>
    /\ a_pages = <<>>
    /\ a_pdf = <<>>
    /\ a_result = "None"

\* return False / return True
AssemblyReturns(value) ==
    /\ a_result' = value
    /\ a_pc' = "done"

\* Lines 151-164: list, filter, sort; nothing to do without an image file
ListFiles ==
    /\ a_pc = "list"
    /\ a_image_files' = ImageFiles(a_listing)
    /\ IF a_image_files' = <<>> THEN AssemblyReturns("False")
       ELSE /\ a_pc' = IF a_chunk_height = 0 THEN "skip" ELSE "load"
            /\ UNCHANGED a_result
    /\ UNCHANGED <<a_listing, a_chunk_height, a_batch_start, a_images, a_min_width,
                   a_chunks, a_pages, a_pdf>>
    /\ UNCHANGED exceptAssembly

\* One batch of skip mode
SkipBatch ==
    /\ a_pc = "skip"
    /\ a_batch_start < Len(a_image_files)
    /\ a_images' = a_images \o ConvertBatch(a_image_files, a_batch_start,
                                            BatchEnd(a_image_files, a_batch_start))
    /\ a_batch_start' = a_batch_start + batch_size
    /\ UNCHANGED <<a_listing, a_chunk_height, a_pc, a_image_files, a_min_width,
                   a_chunks, a_pages, a_pdf, a_result>>
    /\ UNCHANGED exceptAssembly

\* After the last batch: no page, or the save
SkipDone ==
    /\ a_pc = "skip"
    /\ a_batch_start >= Len(a_image_files)
    /\ IF a_images = <<>> THEN AssemblyReturns("False") /\ UNCHANGED a_pages
       ELSE /\ a_pages' = SkipPages(a_images)
            /\ a_pc' = "save"
            /\ UNCHANGED a_result
    /\ UNCHANGED <<a_listing, a_chunk_height, a_image_files, a_batch_start, a_images,
                   a_min_width, a_chunks, a_pdf>>
    /\ UNCHANGED exceptAssembly

\* Pass 1 of stitch mode
StitchLoad ==
    /\ a_pc = "load"
    /\ LET loaded == LoadFrom(a_image_files, 1, <<>>, 0) IN
         /\ a_images' = loaded.images
         /\ a_min_width' = loaded.min_width
         /\ IF loaded.images = <<>> THEN AssemblyReturns("False")
            ELSE a_pc' = "chunk" /\ UNCHANGED a_result
    /\ UNCHANGED <<a_listing, a_chunk_height, a_image_files, a_batch_start,
                   a_chunks, a_pages, a_pdf>>
    /\ UNCHANGED exceptAssembly

\* Pass 2 of stitch mode: the chunks
StitchChunk ==
    /\ a_pc = "chunk"
    /\ a_chunks' = Chunks(a_images, a_chunk_height)
    /\ a_pc' = "stitch"
    /\ UNCHANGED <<a_listing, a_chunk_height, a_image_files, a_batch_start, a_images,
                   a_min_width, a_pages, a_pdf, a_result>>
    /\ UNCHANGED exceptAssembly

\* Pass 2 of stitch mode: one canvas per chunk
StitchPaste ==
    /\ a_pc = "stitch"
    /\ a_pages' = StitchPages(a_chunks, a_min_width)
    /\ a_pc' = "save"
    /\ UNCHANGED <<a_listing, a_chunk_height, a_image_files, a_batch_start, a_images,
                   a_min_width, a_chunks, a_pdf, a_result>>
    /\ UNCHANGED exceptAssembly

\* first_image.save(..., save_all=True, append_images=other_images)
SaveOk ==
    /\ a_pc = "save"
    /\ a_pdf' = a_pages
    /\ AssemblyReturns("True")
    /\ UNCHANGED <<a_listing, a_chunk_height, a_image_files, a_batch_start, a_images,
                   a_min_width, a_chunks, a_pages>>
    /\ UNCHANGED exceptAssembly

\* save raises: except: return False
SaveRaises ==
    /\ a_pc = "save"
    /\ AssemblyReturns("False")
    /\ UNCHANGED <<a_listing, a_chunk_height, a_image_files, a_batch_start, a_images,
                   a_min_width, a_chunks, a_pages, a_pdf>>
    /\ UNCHANGED exceptAssembly

\* ------------------------------------------------------------------------
\* process_single_download
\*
\* A unit of the pool is [url, save_path, state, requests]: state is "queued"
\* after executor.submit, "running" once a worker took it, "True" or "False"
\* once download_image returned; requests counts the calls of requests.get.

\* A chapter has 1, 2 or MaxImages images
MaxImages == 7

ManifestSizes == {1, 2, MaxImages}

SingleUrls == {"https://bato.to/chapter/1", "https://example.com/chapter/1"}

SingleChunkHeights == {0, 5000}

\* The images of a resolved chapter: the names on the image server run against
\* the positions in the list
ImageUrl(k) == "https://n1.io/" \o DigitStr(k) \o ".jpg"

Manifest(n) == [i \in 1..n |-> ImageUrl(n + 1 - i)]

\* response.content of a 2xx answer: the server answers the second name with
\* a page that is no image
Body(url) ==
    Image(url, url # ImageUrl(2), "RGB", 800, 2000)

\* (a download that leaves a file behind when the request fails)
download_image_leaves_file(ok, url, save_path, folder) ==
    [result |-> IF ok THEN "True" ELSE "False",
     folder |-> {f \in folder : f.name # save_path}
                \cup {[name |-> save_path, data |-> Body(url)]}]

\* download_image with the outcome of the request (ok: the request returned and
\* raise_for_status did not raise): [result, folder], folder the staging
\* directory afterwards
download_image(ok, url, save_path, folder) ==
    IF ok
    THEN [result |-> "True",
          folder |-> {f \in folder : f.name # save_path}
                     \cup {[name |-> save_path, data |-> Body(url)]}]
    ELSE [result |-> "False", folder |-> folder]

\* (a fetch phase that fails unless every image arrived)
FetchFailedUnlessAll(count, total_images) == count # total_images

\* if downloaded == 0
FetchFailed(count, total_images) == count = 0

\* os.listdir(temp_folder) in the order of the slot names or against it
ListDir(folder, reversed) ==
    LET slots == [i \in 1..MaxImages |->
                    SlotName(IF reversed THEN MaxImages + 1 - i ELSE i)]
        present == SelectSeq(slots, LAMBDA nm : \E f \in folder : f.name = nm)
    IN [i \in 1..Len(present) |-> CHOOSE f \in folder : f.name = present[i]]

\* (a wait that is over as soon as the unit is running)
DoneOrRunning(unit) == unit.state \in {"True", "False", "running"}

\* future.result() returns: download_image has returned
Done(unit) == unit.state \in {"True", "False"}

Running == {i \in 1..Len(s_futures) : s_futures[i].state = "running"}

InitSingle ==
    /\ s_chapter_url \in SingleUrls
    /\ s_chunk_height \in SingleChunkHeights
    /\ s_pc = "start"
    /\ s_chapter_info = PendingValue
    /\ s_futures = <<>>
    /\ s_collected = 0
    /\ s_downloaded = 0
    /\ s_temp_folder = {}
    /\ s_overtaken = FALSE
    /\ s_listing = <<>>
    /\ s_calls = 0
    /\ s_pdf_data = NoneValue
    /\ s_status = "running"

IdleSingle ==
    /\ s_chapter_url = ""
    /\ s_chunk_height = 0
    /\ s_pc = "idle"
    /\ s_chapter_info = PendingValue
    /\ s_futures = <<>>
    /\ s_collected = 0
    /\ s_downloaded = 0
    /\ s_temp_folder = {}
    /\ s_overtaken = FALSE
    /\ s_listing = <<>>
    /\ s_calls = 0
    /\ s_pdf_data = NoneValue
    /\ s_status = "idle"

\* return, through finally: shutil.rmtree(temp_dir)
SingleReturns(status) ==
    /\ s_status' = status
    /\ s_pc' = "done"
    /\ s_temp_folder' = {}

\* if not is_bato_url: return
SingleRejectUrl ==
    /\ s_pc = "start"
    /\ ~is_bato_url(s_chapter_url)
    /\ s_status' = "not_bato"
    /\ s_pc' = "done"
    /\ UNCHANGED <<s_chapter_url, s_chunk_height, s_chapter_info, s_futures, s_collected,
                   s_downloaded, s_temp_folder, s_overtaken, s_listing, s_calls,
                   s_pdf_data>>
    /\ UNCHANGED exceptSingle

\* get_chapter_info returned None
SingleResolveNone ==
    /\ s_pc = "start"
    /\ is_bato_url(s_chapter_url)
    /\ s_chapter_info' = NoneValue
    /\ SingleReturns("fetch_chapter_failed")
    /\ UNCHANGED <<s_chapter_url, s_chunk_height, s_futures, s_collected, s_downloaded,
                   s_overtaken, s_listing, s_calls, s_pdf_data>>
    /\ UNCHANGED exceptSingle

\* get_chapter_info returned a chapter
SingleResolve ==
    /\ s_pc = "start"
    /\ is_bato_url(s_chapter_url)
    /\ \E n \in ManifestSizes :
         s_chapter_info' = [kind |-> "dict", title |-> "Chapter 1",
                            images |-> Manifest(n), domain |-> "bato.si"]
    /\ s_pc' = "submit"
    /\ UNCHANGED <<s_chapter_url, s_chunk_height, s_futures, s_collected, s_downloaded,
                   s_temp_folder, s_overtaken, s_listing, s_calls, s_pdf_data, s_status>>
    /\ UNCHANGED exceptSingle

\* one iteration of the submit loop; after the last one the collect loop starts
Submit ==
    /\ s_pc = "submit"
    /\ LET idx == Len(s_futures) + 1
           img_url == s_chapter_info.images[idx]
       IN /\ s_futures' = Append(s_futures, [url |-> img_url, save_path |-> SlotName(idx),
                                             state |-> "queued", requests |-> 0])
          /\ s_pc' = IF idx = Len(s_chapter_info.images) THEN "collect" ELSE "submit"
    /\ UNCHANGED <<s_chapter_url, s_chunk_height, s_chapter_info, s_collected, s_downloaded,
                   s_temp_folder, s_overtaken, s_listing, s_calls, s_pdf_data, s_status>>
    /\ UNCHANGED exceptSingle

\* a free worker takes the oldest queued unit and sends the request
WorkerTakes ==
    /\ s_pc \in {"submit", "collect"}
    /\ Cardinality(Running) < max_workers
    /\ \E i \in 1..Len(s_futures) :
         /\ s_futures[i].state = "queued"
         /\ \A j \in 1..(i - 1) : s_futures[j].state # "queued"
         /\ s_futures' = [s_futures EXCEPT ![i].state = "running",
                                           ![i].requests = @ + 1]
    /\ UNCHANGED <<s_chapter_url, s_chunk_height, s_pc, s_chapter_info, s_collected,
                   s_downloaded, s_temp_folder, s_overtaken, s_listing, s_calls,
                   s_pdf_data, s_status>>
    /\ UNCHANGED exceptSingle

\* download_image of unit i returns
WorkerReturns(i, ok) ==
    LET unit == s_futures[i]
        out == download_image(ok, unit.url, unit.save_path, s_temp_folder)
    IN /\ s_pc \in {"submit", "collect"}
       /\ unit.state = "running"
       /\ s_futures' = [s_futures EXCEPT ![i].state = out.result]
       /\ s_temp_folder' = out.folder
       /\ s_overtaken' = (s_overtaken \/ \E j \in 1..(i - 1) : ~Done(s_futures[j]))
       /\ UNCHANGED <<s_chapter_url, s_chunk_height, s_pc, s_chapter_info, s_collected,
                      s_downloaded, s_listing, s_calls, s_pdf_data, s_status>>
       /\ UNCHANGED exceptSingle

WorkerSucceeds == \E i \in 1..Len(s_futures) : WorkerReturns(i, TRUE)

WorkerFails == \E i \in 1..Len(s_futures) : WorkerReturns(i, FALSE)

\* one iteration of "for future in futures": future.result() waits for the unit
Collect ==
    /\ s_pc = "collect"
    /\ s_collected < Len(s_futures)
    /\ Done(s_futures[s_collected + 1])
    /\ s_collected' = s_collected + 1
    /\ s_downloaded' = IF s_futures[s_collected + 1].state = "True"
                       THEN s_downloaded + 1 ELSE s_downloaded
    /\ UNCHANGED <<s_chapter_url, s_chunk_height, s_pc, s_chapter_info, s_futures,
                   s_temp_folder, s_overtaken, s_listing, s_calls, s_pdf_data, s_status>>
    /\ UNCHANGED exceptSingle

\* the with block ends: the executor waits for its workers
PoolExit ==
    /\ s_pc = "collect"
    /\ s_collected = Len(s_futures)
    /\ \A i \in 1..Len(s_futures) : Done(s_futures[i])
    /\ s_pc' = "check"
    /\ UNCHANGED <<s_chapter_url, s_chunk_height, s_chapter_info, s_futures, s_collected,
                   s_downloaded, s_temp_folder, s_overtaken, s_listing, s_calls,
                   s_pdf_data, s_status>>
    /\ UNCHANGED exceptSingle

\* if downloaded == 0: return
SingleNoImages ==
    /\ s_pc = "check"
    /\ FetchFailed(s_downloaded, Len(s_chapter_info.images))
    /\ SingleReturns("download_failed")
    /\ UNCHANGED <<s_chapter_url, s_chunk_height, s_chapter_info, s_futures, s_collected,
                   s_downloaded, s_overtaken, s_listing, s_calls, s_pdf_data>>
    /\ UNCHANGED exceptSingle

\* images_to_pdf_lossless returned True: the document is read and offered
SingleDelivers ==
    /\ s_pc = "check"
    /\ ~FetchFailed(s_downloaded, Len(s_chapter_info.images))
    /\ \E reversed \in BOOLEAN :
         LET listing == ListDir(s_temp_folder, reversed)
             out == images_to_pdf_lossless(listing, s_chunk_height)
         IN /\ out.ok
            /\ s_listing' = listing
            /\ s_pdf_data' = [kind |-> "pdf", pages |-> out.pages]
    /\ s_calls' = s_calls + 1
    /\ SingleReturns("delivered")
    /\ UNCHANGED <<s_chapter_url, s_chunk_height, s_chapter_info, s_futures, s_collected,
                   s_downloaded, s_overtaken>>
    /\ UNCHANGED exceptSingle

\* images_to_pdf_lossless returned False: no image could be opened, or the save
\* raised
SinglePdfFails ==
    /\ s_pc = "check"
    /\ ~FetchFailed(s_downloaded, Len(s_chapter_info.images))
    /\ \E reversed \in BOOLEAN : s_listing' = ListDir(s_temp_folder, reversed)
    /\ s_calls' = s_calls + 1
    /\ SingleReturns("pdf_failed")
    /\ UNCHANGED <<s_chapter_url, s_chunk_height, s_chapter_info, s_futures, s_collected,
                   s_downloaded, s_overtaken, s_pdf_data>>
    /\ UNCHANGED exceptSingle

\* ------------------------------------------------------------------------
\* sanitize_filename, parse_urls

Forbidden == {"<", ">", ":", "\"", "/", "\\", "|", "?", "*"}

Whitespace == {" ", "\t", "\n", "\r"}

\* re.sub(r'[<>:"/\\|?*]', '_', name)
RECURSIVE ReplaceForbidden(_)
ReplaceForbidden(name) ==
    IF name = "" THEN ""
    ELSE (IF SubSeq(name, 1, 1) \in Forbidden THEN "_" ELSE SubSeq(name, 1, 1))
         \o ReplaceForbidden(Suffix(name, 2))

\* re.sub(r'\s+', '_', name): one underscore for a run of whitespace
RECURSIVE ReplaceWhitespace(_, _)
ReplaceWhitespace(name, in_run) ==
    IF name = "" THEN ""
    ELSE IF SubSeq(name, 1, 1) \in Whitespace
         THEN (IF in_run THEN "" ELSE "_") \o ReplaceWhitespace(Suffix(name, 2), TRUE)
         ELSE SubSeq(name, 1, 1) \o ReplaceWhitespace(Suffix(name, 2), FALSE)

sanitize_filename(name) ==
    LET out == ReplaceWhitespace(ReplaceForbidden(name), FALSE)
    IN IF Len(out) > 200 THEN SubSeq(out, 1, 200) ELSE out

\* str.strip()
RECURSIVE Strip(_)
Strip(s) ==
    IF s = "" THEN ""
    ELSE IF SubSeq(s, 1, 1) \in Whitespace THEN Strip(Suffix(s, 2))
    ELSE IF SubSeq(s, Len(s), Len(s)) \in Whitespace THEN Strip(SubSeq(s, 1, Len(s) - 1))
    ELSE s

\* parse_urls on the lines of the text
parse_urls(lines) ==
    LET stripped == [i \in 1..Len(lines) |-> Strip(lines[i])]
    IN SelectSeq(stripped, LAMBDA line : line # "" /\ is_bato_url(line))

\* ------------------------------------------------------------------------
\* process_bulk_download
\*
\* The loop over the chapters, one stage of a chapter per step; the pool of a
\* chapter is the one of process_single_download and is taken in one step here.
\* A document on disk is [path, chapter, pages], chapter the position in urls
\* of the chapter whose assembly wrote it.

\* The text has up to MaxChapters lines
MaxChapters == 3

BulkLines ==
    {"https://bato.to/chapter/1", " https://bato.si/chapter/2 ",
     "https://bato.ing/chapter/3", "https://example.com/chapter/3", ""}

BulkChunkHeights == {0, 5000}

\* What the mirrors serve for a chapter URL: the title and the images
ServedChapter(url) ==
    IF Contains(url, "chapter/1")
    THEN [kind |-> "dict", title |-> "Vol 1: Chapter 1",
          images |-> <<"https://n1.io/a/1.jpg">>, domain |-> "bato.si"]
    ELSE IF Contains(url, "chapter/3")
    THEN [kind |-> "dict", title |-> "Vol 1? Chapter 1",
          images |-> <<"https://n1.io/c/1.jpg">>, domain |-> "bato.ing"]
    ELSE [kind |-> "dict", title |-> "Vol 1  Chapter 2",
          images |-> <<"https://n1.io/b/2.jpg", "https://n1.io/b/1.jpg">>,
          domain |-> "bato.si"]

\* (a list of documents that takes every chapter)
KeepAlways(pdf_files, success, entry) == Append(pdf_files, entry)

\* if success: pdf_files.append((pdf_path, chapter_title))
KeepIfSuccess(pdf_files, success, entry) ==
    IF success THEN Append(pdf_files, entry) ELSE pdf_files

InitBulk ==
    /\ b_text = <<>>
    /\ \E n \in 1..MaxChapters : \E lines \in [1..n -> BulkLines] :
         b_urls = parse_urls(lines)
    /\ b_urls # <<>>
    /\ b_chunk_height \in BulkChunkHeights
    /\ b_pc = "loop"
    /\ b_idx = 0
    /\ b_log = <<>>
    /\ b_chapter_info = PendingValue
    /\ b_temp_folder = {}
    /\ b_downloaded = 0
    /\ b_outcome = <<>>
    /\ b_disk = {}
    /\ b_pdf_files = <<>>
    /\ b_zip = <<>>

IdleBulk ==
    /\ b_text = <<>>
    /\ b_urls = <<>>
    /\ b_chunk_height = 0
    /\ b_pc = "idle"
    /\ b_idx = 0
    /\ b_log = <<>>
    /\ b_chapter_info = PendingValue
    /\ b_temp_folder = {}
    /\ b_downloaded = 0
    /\ b_outcome = <<>>
    /\ b_disk = {}
    /\ b_pdf_files = <<>>
    /\ b_zip = <<>>

\* The chapter ends with this outcome and the loop goes to the next one
ChapterEnds(outcome) ==
    /\ b_outcome' = Append(b_outcome, outcome)
    /\ b_pc' = "loop"
    /\ b_chapter_info' = PendingValue
    /\ b_temp_folder' = {}
    /\ b_downloaded' = 0

\* for idx, url in enumerate(urls, 1)
BulkNextChapter ==
    /\ b_pc = "loop"
    /\ b_idx < Len(b_urls)
    /\ b_idx' = b_idx + 1
    /\ b_log' = Append(b_log, b_idx + 1)
    /\ b_pc' = "resolve"
    /\ UNCHANGED <<b_text, b_urls, b_chunk_height, b_chapter_info, b_temp_folder, b_downloaded,
                   b_outcome, b_disk, b_pdf_files, b_zip>>
    /\ UNCHANGED exceptBulk

\* get_chapter_info(url) returned None: continue
BulkResolveNone ==
    /\ b_pc = "resolve"
    /\ ChapterEnds("fetch_chapter_failed")
    /\ UNCHANGED <<b_text, b_urls, b_chunk_height, b_idx, b_log, b_disk, b_pdf_files, b_zip>>
    /\ UNCHANGED exceptBulk

\* get_chapter_info(url) returned the chapter
BulkResolve ==
    /\ b_pc = "resolve"
    /\ b_chapter_info' = ServedChapter(b_urls[b_idx])
    /\ b_pc' = "fetch"
    /\ UNCHANGED <<b_text, b_urls, b_chunk_height, b_idx, b_log, b_temp_folder, b_downloaded,
                   b_outcome, b_disk, b_pdf_files, b_zip>>
    /\ UNCHANGED exceptBulk

\* an exception inside the try of the chapter (os.makedirs, a widget): continue
BulkRaises ==
    /\ b_pc \in {"fetch", "check"}
    /\ ChapterEnds("raised")
    /\ UNCHANGED <<b_text, b_urls, b_chunk_height, b_idx, b_log, b_disk, b_pdf_files, b_zip>>
    /\ UNCHANGED exceptBulk

\* the pool of the chapter: the requests of the positions in ok succeed
BulkFetch ==
    /\ b_pc = "fetch"
    /\ \E ok \in SUBSET (1..Len(b_chapter_info.images)) :
         /\ b_temp_folder' =
              {[name |-> SlotName(i), data |-> Body(b_chapter_info.images[i])] : i \in ok}
         /\ b_downloaded' = Cardinality(ok)
    /\ b_pc' = "check"
    /\ UNCHANGED <<b_text, b_urls, b_chunk_height, b_idx, b_log, b_chapter_info, b_outcome,
                   b_disk, b_pdf_files, b_zip>>
    /\ UNCHANGED exceptBulk

\* if downloaded == 0: continue
BulkNoImages ==
    /\ b_pc = "check"
    /\ FetchFailed(b_downloaded, Len(b_chapter_info.images))
    /\ ChapterEnds("download_failed")
    /\ UNCHANGED <<b_text, b_urls, b_chunk_height, b_idx, b_log, b_disk, b_pdf_files, b_zip>>
    /\ UNCHANGED exceptBulk

\* pdf_path = os.path.join(temp_dir, f"{chapter_title}.pdf")
PdfPath(info) == sanitize_filename(info.title) \o ".pdf"

\* (pdf_path, chapter_title)
PdfEntry(info) == [pdf_path |-> PdfPath(info), title |-> sanitize_filename(info.title)]

\* images_to_pdf_lossless returned True
BulkPdfCreated ==
    /\ b_pc = "check"
    /\ ~FetchFailed(b_downloaded, Len(b_chapter_info.images))
    /\ \E reversed \in BOOLEAN :
         LET out == images_to_pdf_lossless(ListDir(b_temp_folder, reversed), b_chunk_height)
         IN /\ out.ok
            /\ b_disk' = {d \in b_disk : d.path # PdfPath(b_chapter_info)}
                         \cup {[path |-> PdfPath(b_chapter_info), chapter |-> b_idx,
                                pages |-> out.pages]}
    /\ b_pdf_files' = KeepIfSuccess(b_pdf_files, TRUE, PdfEntry(b_chapter_info))
    /\ ChapterEnds("success")
    /\ UNCHANGED <<b_text, b_urls, b_chunk_height, b_idx, b_log, b_zip>>
    /\ UNCHANGED exceptBulk

\* images_to_pdf_lossless returned False (no image could be opened, or the save
\* raised)
BulkPdfFails ==
    /\ b_pc = "check"
    /\ ~FetchFailed(b_downloaded, Len(b_chapter_info.images))
    /\ b_pdf_files' = KeepIfSuccess(b_pdf_files, FALSE, PdfEntry(b_chapter_info))
    /\ ChapterEnds("pdf_failed")
    /\ UNCHANGED <<b_text, b_urls, b_chunk_height, b_idx, b_log, b_disk, b_zip>>
    /\ UNCHANGED exceptBulk

OnDisk(path) == \E d \in b_disk : d.path = path

\* after the loop, pdf_files not empty: zipf.write of every entry (a missing
\* file raises and no archive is offered); then finally: shutil.rmtree(temp_dir)
BulkZip ==
    /\ b_pc = "loop"
    /\ b_idx = Len(b_urls)
    /\ b_pdf_files # <<>>
    /\ b_zip' = IF \A k \in 1..Len(b_pdf_files) : OnDisk(b_pdf_files[k].pdf_path)
                THEN [k \in 1..Len(b_pdf_files) |->
                        [arcname |-> b_pdf_files[k].title \o ".pdf",
                         doc |-> CHOOSE d \in b_disk : d.path = b_pdf_files[k].pdf_path]]
                ELSE <<>>
    /\ b_disk' = {}
    /\ b_pc' = "done"
    /\ UNCHANGED <<b_text, b_urls, b_chunk_height, b_idx, b_log, b_chapter_info, b_temp_folder,
                   b_downloaded, b_outcome, b_pdf_files>>
    /\ UNCHANGED exceptBulk

\* after the loop, pdf_files empty: "No PDFs were created successfully!"
BulkNoPdfs ==
    /\ b_pc = "loop"
    /\ b_idx = Len(b_urls)
    /\ b_pdf_files = <<>>
    /\ b_disk' = {}
    /\ b_pc' = "done"
    /\ UNCHANGED <<b_text, b_urls, b_chunk_height, b_idx, b_log, b_chapter_info, b_temp_folder,
                   b_downloaded, b_outcome, b_pdf_files, b_zip>>
    /\ UNCHANGED exceptBulk

\* ------------------------------------------------------------------------
\* main: the two download modes
\*
\* Single mode calls process_single_download with the text of the input field.
\* Bulk mode parses the text area and calls process_bulk_download with the
\* URLs found, or returns when there is none.

\* The text area has up to MaxLines lines
MaxLines == 2

InitMainBulk ==
    /\ \E n \in 1..MaxLines : b_text \in [1..n -> BulkLines]
    /\ b_urls = <<>>
    /\ b_chunk_height \in BulkChunkHeights
    /\ b_pc = "main"
    /\ b_idx = 0
    /\ b_log = <<>>
    /\ b_chapter_info = PendingValue
    /\ b_temp_folder = {}
    /\ b_downloaded = 0
    /\ b_outcome = <<>>
    /\ b_disk = {}
    /\ b_pdf_files = <<>>
    /\ b_zip = <<>>

\* urls = parse_urls(urls_text); if not urls: return
MainNoUrls ==
    /\ b_pc = "main"
    /\ parse_urls(b_text) = <<>>
    /\ b_pc' = "done"
    /\ UNCHANGED <<b_text, b_urls, b_chunk_height, b_idx, b_log, b_chapter_info,
                   b_temp_folder, b_downloaded, b_outcome, b_disk, b_pdf_files, b_zip>>
    /\ UNCHANGED exceptBulk

\* urls = parse_urls(urls_text); process_bulk_download(urls, chunk_height)
MainBulk ==
    /\ b_pc = "main"
    /\ parse_urls(b_text) # <<>>
    /\ b_urls' = parse_urls(b_text)
    /\ b_pc' = "loop"
    /\ UNCHANGED <<b_text, b_chunk_height, b_idx, b_log, b_chapter_info, b_temp_folder,
                   b_downloaded, b_outcome, b_disk, b_pdf_files, b_zip>>
    /\ UNCHANGED exceptBulk

\* ------------------------------------------------------------------------
\* Specifications

StartExtractor == InitExtractor /\ IdleResolver /\ IdleAssembly /\ IdleSingle /\ IdleBulk

NextExtractor == Extract

SpecExtractor == StartExtractor /\ [][NextExtractor]_vars

StartResolver == InitResolver /\ IdleExtractor /\ IdleAssembly /\ IdleSingle /\ IdleBulk

NextResolver ==
    \/ ProbeError
    \/ ProbeNon200
    \/ ProbeEmpty
    \/ ProbeSuccess
    \/ ReturnNone

SpecResolver == StartResolver /\ [][NextResolver]_vars

StartSkip == InitSkip /\ IdleResolver /\ IdleExtractor /\ IdleSingle /\ IdleBulk

NextSkip ==
    \/ ListFiles
    \/ SkipBatch
    \/ SkipDone
    \/ SaveOk
    \/ SaveRaises

SpecSkip == StartSkip /\ [][NextSkip]_vars

StartStitch == InitStitch /\ IdleResolver /\ IdleExtractor /\ IdleSingle /\ IdleBulk

NextStitch ==
    \/ ListFiles
    \/ StitchLoad
    \/ StitchChunk
    \/ StitchPaste
    \/ SaveOk
    \/ SaveRaises

SpecStitch == StartStitch /\ [][NextStitch]_vars

StartSingle == InitSingle /\ IdleResolver /\ IdleExtractor /\ IdleAssembly /\ IdleBulk

NextSingle ==
    \/ SingleRejectUrl
    \/ SingleResolveNone
    \/ SingleResolve
    \/ Submit
    \/ WorkerTakes
    \/ WorkerSucceeds
    \/ WorkerFails
    \/ Collect
    \/ PoolExit
    \/ SingleNoImages
    \/ SingleDelivers
    \/ SinglePdfFails

SpecSingle == StartSingle /\ [][NextSingle]_vars

StartBulk == InitBulk /\ IdleResolver /\ IdleExtractor /\ IdleAssembly /\ IdleSingle

NextBulk ==
    \/ BulkNextChapter
    \/ BulkResolveNone
    \/ BulkResolve
    \/ BulkRaises
    \/ BulkFetch
    \/ BulkNoImages
    \/ BulkPdfCreated
    \/ BulkPdfFails
    \/ BulkZip
    \/ BulkNoPdfs

SpecBulk == StartBulk /\ [][NextBulk]_vars

StartMain ==
    /\ \/ InitSingle /\ IdleBulk
       \/ InitMainBulk /\ IdleSingle
    /\ IdleResolver /\ IdleExtractor /\ IdleAssembly

NextMain ==
    \/ SingleRejectUrl
    \/ SingleResolveNone
    \/ SingleResolve
    \/ Submit
    \/ WorkerTakes
    \/ WorkerSucceeds
    \/ WorkerFails
    \/ Collect
    \/ PoolExit
    \/ SingleNoImages
    \/ SingleDelivers
    \/ SinglePdfFails
    \/ MainNoUrls
    \/ MainBulk
    \/ BulkNextChapter
    \/ BulkResolveNone
    \/ BulkResolve
    \/ BulkRaises
    \/ BulkFetch
    \/ BulkNoImages
    \/ BulkPdfCreated
    \/ BulkPdfFails
    \/ BulkZip
    \/ BulkNoPdfs

SpecMain == StartMain /\ [][NextMain]_vars


\* ------------------------------------------------------------------------
\* Properties of the resolver

Returned == rstate \in {"SUCCEEDED", "EXHAUSTED"}

\* C1: the candidates are probed in the order bato.si, bato.ing, then
\* BATO_DOMAINS in list order; the call returns at the first candidate that
\* answers 200 with a non-empty extraction: the manifest's domain is that
\* candidate, its images and title are those of that candidate's page, every
\* candidate before it failed, and it is the last request made.
C1_FirstSuccessWins ==
    LET order == <<"bato.si", "bato.ing">> \o BATO_DOMAINS
        k == Len(fetched)
    IN /\ k <= Len(order)
       /\ \A i \in 1..k : fetched[i].domain = order[i]
       /\ rstate = "SUCCEEDED" =>
            /\ chapter_info.domain = order[k]
            /\ failed = 1..(k - 1)
            /\ resp.status = 200
            /\ extract_images_multi_strategy(resp.html.scripts) # <<>>
            /\ chapter_info.images =
                 [i \in 1..Len(extract_images_multi_strategy(resp.html.scripts)) |->
                    rewrite_image_url(extract_images_multi_strategy(resp.html.scripts)[i])]
            /\ chapter_info.title = ChapterTitle(resp.html)

\* The fourth candidate (bato.ing, for the second time) is the first to succeed
C1_Witness ==
    /\ rstate = "SUCCEEDED"
    /\ Len(fetched) = 4
    /\ failed = {1, 2, 3}
    /\ chapter_info.domain = "bato.ing"
    /\ chapter_info.images = <<"https://n1.io/1.jpg", U2>>

\* C2: None is returned exactly when every candidate failed, and a returned
\* manifest always has a non-empty image list.
C2_NoneIffAllFailed ==
    Returned =>
        /\ chapter_info = NoneValue <=> failed = 1..Len(Candidates)
        /\ chapter_info # NoneValue =>
             /\ chapter_info.kind = "dict"
             /\ chapter_info.images # <<>>
             /\ failed # 1..Len(Candidates)

\* Every candidate failed, the last one with an empty extraction
C2_Witness ==
    /\ rstate = "EXHAUSTED"
    /\ chapter_info = NoneValue
    /\ Cardinality(failed) = Len(Candidates)
    /\ resp.kind = "response" /\ resp.status = 200

\* The occurrences <<k, p>> of a mirror domain BATO_DOMAINS[k] at position p
Occurrences(url) ==
    {o \in (1..Len(BATO_DOMAINS)) \X (1..Len(url)) :
        /\ o[2] + Len(BATO_DOMAINS[o[1]]) - 1 <= Len(url)
        /\ SubSeq(url, o[2], o[2] + Len(BATO_DOMAINS[o[1]]) - 1) = BATO_DOMAINS[o[1]]}

\* An occurrence that does not lie inside a longer one ('ato.to' in 'bato.to')
Covers(o, q) ==
    /\ o # q
    /\ o[2] <= q[2]
    /\ q[2] + Len(BATO_DOMAINS[q[1]]) <= o[2] + Len(BATO_DOMAINS[o[1]])

DomainOccurrences(url) ==
    {q \in Occurrences(url) : ~\E o \in Occurrences(url) : Covers(o, q)}

\* url with the occurrence o alone replaced by target
ReplaceAt(url, o, target) ==
    SubSeq(url, 1, o[2] - 1) \o target \o Suffix(url, o[2] + Len(BATO_DOMAINS[o[1]]))

\* C3: every request goes to the chapter URL with exactly one occurrence of its
\* mirror domain replaced by the candidate, all else unchanged.
C3_RewriteReplacesOneOccurrence ==
    \A i \in 1..Len(fetched) :
        \E o \in DomainOccurrences(chapter_url) :
            fetched[i].url = ReplaceAt(chapter_url, o, fetched[i].domain)

\* ------------------------------------------------------------------------
\* Properties of the extractor

\* The scripts with a parseable, non-empty imgHttps array
StructuredScripts(scripts) ==
    {i \in 1..Len(scripts) :
        scripts[i].string /\ scripts[i].imgHttps = "ok" /\ scripts[i].arr # <<>>}

\* The scripts with a marker token and quoted image URLs
MarkerScripts(scripts) ==
    {i \in 1..Len(scripts) :
        scripts[i].string /\ scripts[i].marker /\ scripts[i].quoted # <<>>}

\* The array of the first script that has one
StructuredResult(scripts) ==
    scripts[CHOOSE i \in StructuredScripts(scripts) :
                \A j \in StructuredScripts(scripts) : i <= j].arr

\* C4: a page with both a parseable non-empty imgHttps array and marker-token
\* URLs, in any script order, gives the array.
C4_StructuredArrayWins ==
    (/\ extracted.kind = "list"
     /\ StructuredScripts(page) # {}
     /\ MarkerScripts(page) # {})
    => extracted.urls = StructuredResult(page)

\* ------------------------------------------------------------------------
\* Properties of the assembly

\* The in-order concatenation of a list of lists
RECURSIVE Concat(_)
Concat(lists) == IF lists = <<>> THEN <<>> ELSE lists[1] \o Concat(Tail(lists))

Heights(images) == [i \in 1..Len(images) |-> images[i].h]

Chunked == a_pc \in {"stitch", "save", "done"} /\ a_chunk_height > 0 /\ a_images # <<>>

Pasted == a_pc \in {"save", "done"} /\ a_chunk_height > 0 /\ a_images # <<>>

\* C8: the chunks are non-empty and their concatenation is the list of
\* normalised images; a chunk ends before an image exactly when the image
\* would lift its height above chunk_height, so a chunk of two or more images
\* is at most chunk_height high and a taller image is alone in its chunk; every
\* chunk gives one page as high as its images together.  Three images of 4000
\* give three pages at 5000, three of 1000 one page of 3000.
C8_ChunksPartitionInOrder ==
    /\ Chunked =>
         /\ \A c \in 1..Len(a_chunks) : a_chunks[c] # <<>>
         /\ Concat(a_chunks) = a_images
         /\ \A c \in 1..(Len(a_chunks) - 1) :
               SumHeights(a_chunks[c]) + a_chunks[c + 1][1].h > a_chunk_height
         /\ \A c \in 1..Len(a_chunks) :
               /\ \A k \in 2..Len(a_chunks[c]) :
                     SumHeights(SubSeq(a_chunks[c], 1, k)) <= a_chunk_height
               /\ Len(a_chunks[c]) >= 2 => SumHeights(a_chunks[c]) <= a_chunk_height
               /\ \A k \in 1..Len(a_chunks[c]) :
                     a_chunks[c][k].h > a_chunk_height => Len(a_chunks[c]) = 1
    /\ Pasted =>
         /\ Len(a_pages) = Len(a_chunks)
         /\ \A c \in 1..Len(a_pages) :
               /\ a_pages[c].h = SumHeights(a_chunks[c])
               /\ a_pages[c].parts = a_chunks[c]
         /\ (a_chunk_height = 5000 /\ Heights(a_images) = <<4000, 4000, 4000>>)
               => Heights(a_pages) = <<4000, 4000, 4000>>
         /\ (a_chunk_height = 5000 /\ Heights(a_images) = <<1000, 1000, 1000>>)
               => Heights(a_pages) = <<3000>>
    /\ (a_result = "True" /\ a_chunk_height > 0) => a_pdf = a_pages

\* Images of 1000, 4000 and 6000 at 5000: the first two share a page, the
\* third, taller than a page, has its own
C8_Witness ==
    /\ a_result = "True"
    /\ a_chunk_height = 5000
    /\ Heights(a_images) = <<1000, 4000, 6000>>
    /\ Heights(a_pdf) = <<5000, 6000>>

\* The positions of the staged images that can be opened
ValidStaged == {a_listing[i].data.src : i \in {j \in 1..Len(a_listing) : a_listing[j].data.ok}}

\* C9: in skip mode the document has one page per valid staged image, in the
\* order of the positions in the file names, whatever the number of batches.
C9_SkipOnePagePerImage ==
    (a_chunk_height = 0 /\ a_pc \in {"save", "done"} /\ ValidStaged # {}) =>
        /\ Len(a_pages) = Cardinality(ValidStaged)
        /\ {a_pages[i].parts[1].src : i \in 1..Len(a_pages)} = ValidStaged
        /\ \A i \in 1..Len(a_pages) :
              /\ Len(a_pages[i].parts) = 1
              /\ a_pages[i].w = a_pages[i].parts[1].w
              /\ a_pages[i].h = a_pages[i].parts[1].h
              /\ i > 1 => a_pages[i - 1].parts[1].src < a_pages[i].parts[1].src
        /\ a_result = "True" => a_pdf = a_pages

\* 101 staged files, the 51st cannot be opened: 100 pages from three batches
C9_Witness ==
    /\ a_chunk_height = 0
    /\ a_result = "True"
    /\ Len(a_listing) = 2 * batch_size + 1
    /\ Len(a_pdf) = 2 * batch_size
    /\ a_pdf[batch_size].parts[1].src = batch_size
    /\ a_pdf[batch_size + 1].parts[1].src = batch_size + 2

\* ------------------------------------------------------------------------
\* Properties of process_single_download

Resolved == s_chapter_info.kind = "dict"

Units == 1..Len(s_futures)

Succeeded == {i \in Units : s_futures[i].state = "True"}

Refused == {i \in Units : s_futures[i].state = "False"}

StagedNames == {f.name : f \in s_temp_folder}

C6_FetchFailedIffZero ==
    /\ s_status = "download_failed" <=> (s_pc = "done" /\ Resolved /\ s_downloaded = 0)
    /\ s_status = "download_failed" => s_calls = 0 /\ s_pdf_data = NoneValue
    /\ (s_pc = "done" /\ Resolved /\ s_downloaded >= 1) =>
         s_calls = 1 /\ s_status \in {"delivered", "pdf_failed"}

\* Every one of more images than workers was requested and refused
C6_Witness ==
    /\ s_status = "download_failed"
    /\ Len(s_futures) > max_workers
    /\ \A i \in Units : s_futures[i].requests = 1 /\ s_futures[i].state = "False"
    /\ s_calls = 0

\* The images on the pages from the first page to the last, top to bottom
Srcs(pages) ==
    Concat([p \in 1..Len(pages) |->
              [k \in 1..Len(pages[p].parts) |-> pages[p].parts[k].src]])

\* The images of the chapter that were staged and can be opened, in the order
\* of chapter_info['images']
StagedInManifestOrder ==
    LET keep == SelectSeq([i \in 1..Len(s_futures) |-> i],
                          LAMBDA i : i \in Succeeded /\ Body(s_futures[i].url).ok)
    IN [k \in 1..Len(keep) |-> s_chapter_info.images[keep[k]]]

\* C7: the file name of a unit is page_, its position in the list in four
\* digits, .jpg; two units never have the same name; the sorted files handed
\* to the assembly are in the order of the list; the images of the delivered
\* document, first page to last, are the staged images in the order of the list.
C7_PageOrderIsManifestOrder ==
    /\ \A i \in Units :
         /\ s_futures[i].url = s_chapter_info.images[i]
         /\ Len(s_futures[i].save_path) = 13
         /\ SubSeq(s_futures[i].save_path, 1, 5) = "page_"
         /\ ToInt(SubSeq(s_futures[i].save_path, 6, 9)) = i
         /\ SubSeq(s_futures[i].save_path, 10, 13) = ".jpg"
    /\ \A i, j \in Units : i # j => s_futures[i].save_path # s_futures[j].save_path
    /\ LET image_files == ImageFiles(s_listing)
       IN \A k \in 1..(Len(image_files) - 1) :
             ToInt(SubSeq(image_files[k].name, 6, 9))
                < ToInt(SubSeq(image_files[k + 1].name, 6, 9))
    /\ s_status = "delivered" => Srcs(s_pdf_data.pages) = StagedInManifestOrder

\* More images than workers, returns out of order, one failure, the directory
\* listed against the order of the names
C7_Witness ==
    /\ s_status = "delivered"
    /\ Len(s_futures) > max_workers
    /\ s_overtaken
    /\ Refused # {}
    /\ Len(s_listing) > 2
    /\ ToInt(SubSeq(s_listing[1].name, 6, 9)) > ToInt(SubSeq(s_listing[2].name, 6, 9))
    /\ Len(Srcs(s_pdf_data.pages)) > 2

\* ------------------------------------------------------------------------
\* Properties of process_bulk_download

Successful == {k \in 1..Len(b_outcome) : b_outcome[k] = "success"}

SuccessfulInOrder ==
    SelectSeq([k \in 1..Len(b_outcome) |-> k], LAMBDA k : b_outcome[k] = "success")

\* C11: the archive holds as many distinct documents as there are chapters
\* whose assembly returned True, and the entry of each such chapter is the
\* document that the assembly of this chapter wrote, also when two chapters
\* have the same sanitized title.
C11_OneDocumentPerChapter ==
    (b_pc = "done" /\ b_zip # <<>>) =>
        /\ Cardinality({b_zip[k].doc : k \in 1..Len(b_zip)}) = Cardinality(Successful)
        /\ \A k \in 1..Len(b_zip) : b_zip[k].doc.chapter = SuccessfulInOrder[k]

\* ------------------------------------------------------------------------
\* Properties of main

\* The URL contains one of the mirror domains
HasMirrorDomain(url) == \E k \in 1..Len(BATO_DOMAINS) : Contains(url, BATO_DOMAINS[k])

\* The lines of the text area that contain a mirror domain, in order
MirrorLines ==
    SelectSeq([i \in 1..Len(b_text) |-> Strip(b_text[i])], HasMirrorDomain)

\* C12: in single mode a URL without a mirror domain ends the call with no
\* chapter resolved and no unit submitted; in bulk mode the URLs given to
\* process_bulk_download are the lines with a mirror domain and only those,
\* so the URL of every iteration has one, and a text without such a line
\* starts no iteration.
C12_NoMirrorNoRequest ==
    /\ (s_pc # "idle" /\ ~HasMirrorDomain(s_chapter_url)) =>
          /\ s_chapter_info = PendingValue
          /\ s_futures = <<>>
          /\ s_calls = 0
          /\ s_status \in {"running", "not_bato"}
    /\ \A k \in 1..Len(b_urls) : HasMirrorDomain(b_urls[k])
    /\ b_pc \in {"loop", "resolve", "fetch", "check"} =>
          /\ b_urls = MirrorLines
          /\ b_idx <= Len(b_urls)
    /\ (b_pc = "done" /\ MirrorLines = <<>>) =>
          b_urls = <<>> /\ b_idx = 0 /\ b_log = <<>> /\ b_outcome = <<>>

\* A line without a mirror domain before a line with one: one chapter is
\* processed
C12_Witness ==
    /\ b_pc = "done"
    /\ b_text = <<"https://example.com/chapter/3", "https://bato.to/chapter/1">>
    /\ b_urls = <<"https://bato.to/chapter/1">>
    /\ b_outcome = <<"success">>

\* ------------------------------------------------------------------------
\* Properties of the fallback of the extractor

\* No script gives a structured array or marker URLs: the second loop runs
FallbackReached ==
    /\ extracted.kind = "list"
    /\ StructuredScripts(page) = {}
    /\ MarkerScripts(page) = {}

\* The image URLs that the broad pattern finds in the scripts of the page
PageBare == UNION {Range(page[i].bare) : i \in {j \in 1..Len(page) : page[j].string}}

\* The position at which url is first seen in urls
FirstSeen(urls, url) == CHOOSE a \in 1..Len(urls) : urls[a] = url /\ \A b \in 1..(a - 1) : urls[b] # url

\* C13: when the fallback is reached, a list that is not empty has at least
\* three URLs, no URL twice, and is what the broad pattern found in one script
\* in the order of the first occurrences; with fewer than three distinct URLs
\* in the scripts of the page the list is empty.
C13_FallbackNeedsThree ==
    FallbackReached =>
        /\ extracted.urls # <<>> =>
              /\ Len(extracted.urls) >= 3
              /\ Cardinality(Range(extracted.urls)) = Len(extracted.urls)
              /\ \E i \in 1..Len(page) :
                    /\ page[i].string
                    /\ Range(page[i].bare) = Range(extracted.urls)
                    /\ \A a, b \in 1..Len(extracted.urls) :
                          a < b => FirstSeen(page[i].bare, extracted.urls[a])
                                      < FirstSeen(page[i].bare, extracted.urls[b])
        /\ Cardinality(PageBare) < 3 => extracted.urls = <<>>

\* A script with two distinct URLs, then one with three distinct URLs, one of
\* them twice: the list of the second script without the repetition
C13_Witness ==
    /\ FallbackReached
    /\ Len(page) = 2
    /\ page[1].bare = <<U5, U6, U5>>
    /\ page[2].bare = <<U4, U6, U4, U2>>
    /\ extracted.urls = <<U4, U6, U2>>

\* ------------------------------------------------------------------------
\* Properties of the pool

\* The units whose download_image has returned
Finished == {i \in Units : s_futures[i].state \in {"True", "False"}}

\* C14 as stated: no result is counted into downloaded before every unit has
\* finished, and images_to_pdf_lossless is not called while a unit is running.
C14_NoResultBeforeAllFinished ==
    /\ s_collected > 0 => Finished = Units
    /\ s_calls > 0 => Finished = Units

\* C14 amended: the collect loop starts after the last submit and takes the
\* results in the order of submission, each one after its own unit has
\* finished, while later units may still be queued or running; downloaded is
\* the number of successes among the results taken; the pool is left, and
\* images_to_pdf_lossless called, only after every unit has finished and every
\* result was taken.
C14_ResultsInOrderThenBarrier ==
    /\ s_collected > 0 => Len(s_futures) = Len(s_chapter_info.images)
    /\ s_collected <= Len(s_futures)
    /\ 1..s_collected \subseteq Finished
    /\ s_downloaded = Cardinality({i \in 1..s_collected : s_futures[i].state = "True"})
    /\ (s_pc \in {"check", "done"} /\ Resolved) =>
          /\ Len(s_futures) = Len(s_chapter_info.images)
          /\ Finished = Units
          /\ s_collected = Len(s_futures)
    /\ s_calls > 0 => (Finished = Units /\ s_collected = Len(s_futures))

\* More images than workers: the first result is counted while a later unit
\* is running and the last one is still queued
C14_Witness ==
    /\ s_pc = "collect"
    /\ Len(s_futures) > max_workers
    /\ s_collected >= 1
    /\ s_downloaded >= 1
    /\ \E i \in Units : s_futures[i].state = "running"
    /\ s_futures[Len(s_futures)].state = "queued"

\* ------------------------------------------------------------------------
\* Properties of the widths in stitch mode

\* The staged files that can be opened
Readable == {j \in 1..Len(a_image_files) : a_image_files[j].data.ok}

\* The file an image was loaded from
Original(img) ==
    a_image_files[CHOOSE j \in Readable : a_image_files[j].data.src = img.src].data

\* C15: after pass 1 of stitch mode every image has the width min_width,
\* which is the smallest width of the staged images, whatever their order; no
\* image is wider or higher than its file; every image on a page is as wide
\* as the page.
C15_UniformMinimumWidth ==
    (a_chunk_height > 0 /\ a_pc \in {"chunk", "stitch", "save", "done"} /\ a_images # <<>>) =>
        /\ \A j \in Readable : a_min_width <= a_image_files[j].data.w
        /\ \E j \in Readable : a_min_width = a_image_files[j].data.w
        /\ \A k \in 1..Len(a_images) :
              /\ a_images[k].w = a_min_width
              /\ a_images[k].w <= Original(a_images[k]).w
              /\ a_images[k].h <= Original(a_images[k]).h
        /\ \A p \in 1..Len(a_pages) : \A k \in 1..Len(a_pages[p].parts) :
              a_pages[p].parts[k].w = a_pages[p].w

====
